---- MODULE Spec2Model ----
(***************************************************************************)
(* Base58 / Base58Check (src/base58check/__init__.py) as a state machine.  *)
(*                                                                         *)
(* The library is a set of pure functions.  Each public function is an     *)
(* operator computed the way the source computes it; each action of the    *)
(* state machine is one call of a public function, whose outcome (the      *)
(* value returned or the exception raised) is stored in `res`.  `prev`     *)
(* remembers the call whose result was fed to the current call, so that    *)
(* round trips are statements about pairs of calls that really happened.   *)
(*                                                                         *)
(* bytes         : sequences of 0..255                                     *)
(* Python int    : arbitrary precision, kept as little-endian sequences    *)
(*                 of 15-bit limbs without high zero limbs (TLC's own      *)
(*                 integers are 32-bit and cannot hold an address)         *)
(* 32-bit words  : pairs <<hi, lo>> of 16-bit halves (SHA-256)             *)
(*                                                                         *)
(* A local of the source that is read more than once (stripped, acc, dec,  *)
(* v_addr, ...) is a parameter of a continuation operator named after the  *)
(* step it continues, not a LET: TLC evaluates a parameter once.           *)
(***************************************************************************)
EXTENDS Integers, Sequences, FiniteSets, TLC

(***************************************************************************)
(* Arbitrary-precision naturals (the Python ints acc, p, int_, output).   *)
(***************************************************************************)
LimbBase == 2 ^ 15

\* Always TRUE.  TLC passes operator arguments unevaluated; a loop that tests
\* Evaluated(acc) computes its accumulator at every step instead of building
\* one nested computation as deep as the loop is long.
Evaluated(x) == x = x

BigZero == << >>

RECURSIVE BigNorm(_)
BigNorm(n) ==
    IF n = << >> THEN << >>
    ELSE IF n[Len(n)] = 0 THEN BigNorm(SubSeq(n, 1, Len(n) - 1))
    ELSE n

BigOne == << 1 >>

RECURSIVE BigMulStep(_, _, _, _, _)
BigMulStep(n, m, i, carry, out) ==
    IF i > Len(n)
    THEN (IF carry = 0 THEN out ELSE Append(out, carry))
    ELSE LET t == n[i] * m + carry
         IN  BigMulStep(n, m, i + 1, t \div LimbBase, Append(out, t % LimbBase))

\* n * m for a small m (a byte, 58 or 256)
BigMulSmall(n, m) == BigNorm(BigMulStep(n, m, 1, 0, << >>))

RECURSIVE BigAddStep(_, _, _, _, _)
BigAddStep(a, b, i, carry, out) ==
    IF i > Len(a) /\ i > Len(b)
    THEN (IF carry = 0 THEN out ELSE Append(out, carry))
    ELSE LET x == IF i <= Len(a) THEN a[i] ELSE 0
             y == IF i <= Len(b) THEN b[i] ELSE 0
             t == x + y + carry
         IN  BigAddStep(a, b, i + 1, t \div LimbBase, Append(out, t % LimbBase))

BigAdd(a, b) == BigNorm(BigAddStep(a, b, 1, 0, << >>))

BigFromSmall(k) == IF k = 0 THEN << >> ELSE << k >>

RECURSIVE BigDivStep(_, _, _, _, _)
BigDivStep(n, d, i, rem, out) ==
    IF i = 0
    THEN << BigNorm(out), rem >>
    ELSE LET t == rem * LimbBase + n[i]
         IN  BigDivStep(n, d, i - 1, t % d, << t \div d >> \o out)

\* divmod(n, d) for a small d: << quotient, remainder >>
BigDivMod(n, d) == BigDivStep(n, d, Len(n), 0, << >>)

(***************************************************************************)
(* bytes helpers                                                           *)
(***************************************************************************)
\* a strip that removes one leading c only
LStripOnce(s, c) ==
    IF s # << >> /\ s[1] = c THEN SubSeq(s, 2, Len(s)) ELSE s

RECURSIVE LStrip(_, _)
LStrip(s, c) ==
    IF s # << >> /\ s[1] = c THEN LStrip(SubSeq(s, 2, Len(s)), c) ELSE s

Repeat(c, n) == [i \in 1..n |-> c]

\* an index that counts positions from 1
IndexFromOne(cs, c, i) ==
    IF \E k \in i..Len(cs) : cs[k] = c
    THEN CHOOSE k \in i..Len(cs) : cs[k] = c /\ \A j \in i..(k - 1) : cs[j] # c
    ELSE -1

\* bytes.index(char): the first position (0-based) of char, or -1 when absent
RECURSIVE IndexFrom(_, _, _)
IndexFrom(cs, c, i) ==
    IF i > Len(cs) THEN -1
    ELSE IF cs[i] = c THEN i - 1
    ELSE IndexFrom(cs, c, i + 1)

Index(cs, c) == IndexFrom(cs, c, 1)

\* s[a:b] with Python's clamping (a negative bound counts from the end)
Slice(s, a, b) ==
    LET n  == Len(s)
        lo == IF a < 0 THEN (IF n + a < 0 THEN 0 ELSE n + a) ELSE (IF a > n THEN n ELSE a)
        hi == IF b < 0 THEN (IF n + b < 0 THEN 0 ELSE n + b) ELSE (IF b > n THEN n ELSE b)
    IN  IF hi <= lo THEN << >> ELSE SubSeq(s, lo + 1, hi)

(***************************************************************************)
(* Outcomes of a call                                                      *)
(***************************************************************************)
Return(v) == [kind |-> "return", exc |-> "", msg |-> "", value |-> v]
Raise(e, m) == [kind |-> "raise", exc |-> e, msg |-> m, value |-> << >>]

DEFAULT_CHARSET ==
    << 49, 50, 51, 52, 53, 54, 55, 56, 57,
       65, 66, 67, 68, 69, 70, 71, 72, 74, 75, 76, 77, 78, 80, 81, 82, 83,
       84, 85, 86, 87, 88, 89, 90,
       97, 98, 99, 100, 101, 102, 103, 104, 105, 106, 107, 109, 110, 111,
       112, 113, 114, 115, 116, 117, 118, 119, 120, 121, 122 >>

(***************************************************************************)
(* b58encode                                                               *)
(***************************************************************************)
\* while int_: int_, idx = divmod(int_, base); output = charset[idx:idx+1] + output
RECURSIVE B58EncodeIntLoop(_, _, _)
RECURSIVE B58EncodeIntStep(_, _, _)
B58EncodeIntLoop(int_, charset, output) ==
    IF int_ = BigZero \/ ~Evaluated(output) THEN output
    ELSE B58EncodeIntStep(BigDivMod(int_, Len(charset)), charset, output)

B58EncodeIntStep(qr, charset, output) ==
    B58EncodeIntLoop(qr[1], charset, << charset[qr[2] + 1] >> \o output)

\* _b58encode_int(int_, default): default is a bytes value, or << >> for False
B58EncodeInt(int_, default, charset) ==
    IF int_ = BigZero /\ default # << >> THEN default
    ELSE B58EncodeIntLoop(int_, charset, << >>)

\* the loop over deque(reversed(val)): i steps from the last byte to the first
RECURSIVE BytesToIntLoop(_, _, _, _)
BytesToIntLoop(val, i, p, acc) ==
    IF i = 0 \/ ~Evaluated(<< p, acc >>) THEN acc
    ELSE BytesToIntLoop(val, i - 1, BigMulSmall(p, 256),
                        BigAdd(acc, BigMulSmall(p, val[i])))

BytesToInt(val) == BytesToIntLoop(val, Len(val), BigOne, BigZero)

\* line 91 without default=False: _b58encode_int falls back to its own default
B58EncodeStrippedDefault(pad_len, stripped, charset) ==
    Return(Repeat(charset[1], pad_len)
             \o B58EncodeInt(BytesToInt(stripped), << charset[1] >>, charset))

\* lines 82-93, val already stripped of its leading zero bytes
B58EncodeStripped(pad_len, stripped, charset) ==
    Return(Repeat(charset[1], pad_len)
             \o B58EncodeInt(BytesToInt(stripped), << >>, charset))

\* line 59 evaluates charset[0] for the default of _b58encode_int when the
\* inner function is defined, before the length of charset is checked
b58encode(val, charset) ==
    IF charset = << >> THEN Raise("IndexError", "index out of range")
    ELSE IF Len(charset) # 58 THEN Raise("ValueError", "charset base must be 58")
    ELSE B58EncodeStripped(Len(val) - Len(LStrip(val, 0)), LStrip(val, 0), charset)

(***************************************************************************)
(* b58decode                                                               *)
(***************************************************************************)
\* _b58decode_int: << TRUE, output >>, or << FALSE, _ >> when charset.index raises
RECURSIVE B58DecodeIntLoop(_, _, _, _)
RECURSIVE B58DecodeIntStep(_, _, _, _, _)
B58DecodeIntLoop(val, charset, i, output) ==
    IF i > Len(val) \/ ~Evaluated(output) THEN << TRUE, output >>
    ELSE B58DecodeIntStep(val, charset, i, output, Index(charset, val[i]))

\* output = output * base + charset.index(char)
B58DecodeIntStep(val, charset, i, output, idx) ==
    IF idx < 0 THEN << FALSE, output >>
    ELSE B58DecodeIntLoop(val, charset, i + 1,
             BigAdd(BigMulSmall(output, Len(charset)), BigFromSmall(idx)))

B58DecodeInt(val, charset) == B58DecodeIntLoop(val, charset, 1, BigZero)

\* while acc > 0: acc, mod = divmod(acc, 256); result.appendleft(mod)
RECURSIVE IntToBytesLoop(_, _)
RECURSIVE IntToBytesStep(_, _)
IntToBytesLoop(acc, result) ==
    IF acc = BigZero \/ ~Evaluated(result) THEN result
    ELSE IntToBytesStep(BigDivMod(acc, 256), result)

IntToBytesStep(qr, result) == IntToBytesLoop(qr[1], << qr[2] >> \o result)

IntToBytes(acc) == IntToBytesLoop(acc, << >>)

\* line 141 without the prefix of zero bytes
B58DecodeResultNoPrefix(pad_len, dec) ==
    IF ~dec[1] THEN Raise("ValueError", "subsection not found")
    ELSE Return(IntToBytes(dec[2]))

\* lines 133-141, dec the outcome of _b58decode_int
B58DecodeResult(pad_len, dec) ==
    IF ~dec[1] THEN Raise("ValueError", "subsection not found")
    ELSE Return(Repeat(0, pad_len) \o IntToBytes(dec[2]))

\* lines 129-133, val already stripped of its leading charset[0] symbols
B58DecodeStripped(pad_len, stripped, charset) ==
    B58DecodeResult(pad_len, B58DecodeInt(stripped, charset))

b58decode(val, charset) ==
    IF Len(charset) # 58 THEN Raise("ValueError", "charset base must be 58")
    ELSE B58DecodeStripped(Len(val) - Len(LStrip(val, charset[1])),
                           LStrip(val, charset[1]), charset)


(***************************************************************************)
(* hashlib.sha256 (FIPS 180-4) on 32-bit words kept as 16-bit halves       *)
(***************************************************************************)
Pow2Tab == << 1, 2, 4, 8, 16, 32, 64, 128, 256, 512, 1024, 2048, 4096,
              8192, 16384, 32768, 65536 >>
Pow2(n) == Pow2Tab[n + 1]

RECURSIVE XorBits(_, _, _)
XorBits(a, b, n) ==
    IF n = 0 THEN 0
    ELSE (((a % 2) + (b % 2)) % 2) + 2 * XorBits(a \div 2, b \div 2, n - 1)

RECURSIVE AndBits(_, _, _)
AndBits(a, b, n) ==
    IF n = 0 THEN 0
    ELSE ((a % 2) * (b % 2)) + 2 * AndBits(a \div 2, b \div 2, n - 1)

\* bitwise XOR and AND as tables: of two 4-bit values, then of two bytes
XorNib == [a \in 0..15 |-> [b \in 0..15 |-> XorBits(a, b, 4)]]
AndNib == [a \in 0..15 |-> [b \in 0..15 |-> AndBits(a, b, 4)]]

XorByte ==
    [a \in 0..255 |-> [b \in 0..255 |->
        XorNib[a \div 16][b \div 16] * 16 + XorNib[a % 16][b % 16]]]

AndByte ==
    [a \in 0..255 |-> [b \in 0..255 |->
        AndNib[a \div 16][b \div 16] * 16 + AndNib[a % 16][b % 16]]]

Xor16(a, b) ==
    XorByte[a \div 256][b \div 256] * 256 + XorByte[a % 256][b % 256]

And16(a, b) ==
    AndByte[a \div 256][b \div 256] * 256 + AndByte[a % 256][b % 256]

W32Xor(x, y) == << Xor16(x[1], y[1]), Xor16(x[2], y[2]) >>
W32And(x, y) == << And16(x[1], y[1]), And16(x[2], y[2]) >>
W32Not(x) == << 65535 - x[1], 65535 - x[2] >>

W32Add(x, y) ==
    LET lo == x[2] + y[2]
        hi == x[1] + y[1] + (lo \div 65536)
    IN  << hi % 65536, lo % 65536 >>

\* rotate right by 0 < n < 32
W32Rotr(x, n) ==
    LET hi == IF n >= 16 THEN x[2] ELSE x[1]
        lo == IF n >= 16 THEN x[1] ELSE x[2]
        k  == n % 16
    IN  IF k = 0 THEN << hi, lo >>
        ELSE << (hi \div Pow2(k)) + (lo % Pow2(k)) * Pow2(16 - k),
                (lo \div Pow2(k)) + (hi % Pow2(k)) * Pow2(16 - k) >>

\* shift right by 0 < n < 16
W32Shr(x, n) ==
    << x[1] \div Pow2(n),
       (x[2] \div Pow2(n)) + (x[1] % Pow2(n)) * Pow2(16 - n) >>

SHA256_K ==
    <<
       <<17034, 12184>>, <<28983, 17553>>, <<46528, 64463>>, <<59829, 56229>>,
       <<14678, 49755>>, <<23025, 4593>>, <<37439, 33444>>, <<43804, 24277>>,
       <<55303, 43672>>, <<4739, 23297>>, <<9265, 34238>>, <<21772, 32195>>,
       <<29374, 23924>>, <<32990, 45566>>, <<39900, 1703>>, <<49563, 61812>>,
       <<58523, 27073>>, <<61374, 18310>>, <<4033, 40390>>, <<9228, 41420>>,
       <<11753, 11375>>, <<19060, 33962>>, <<23728, 43484>>, <<30457, 35034>>,
       <<38974, 20818>>, <<43057, 50797>>, <<45059, 10184>>, <<48985, 32711>>,
       <<50912, 3059>>, <<54695, 37191>>, <<1738, 25425>>, <<5161, 10599>>,
       <<10167, 2693>>, <<11803, 8504>>, <<19756, 28156>>, <<21304, 3347>>,
       <<25866, 29524>>, <<30314, 2747>>, <<33218, 51502>>, <<37490, 11397>>,
       <<41663, 59553>>, <<43034, 26187>>, <<49739, 35696>>, <<51052, 20899>>,
       <<53650, 59417>>, <<54937, 1572>>, <<62478, 13701>>, <<4202, 41072>>,
       <<6564, 49430>>, <<7735, 27656>>, <<10056, 30540>>, <<13488, 48309>>,
       <<14620, 3251>>, <<20184, 43594>>, <<23452, 51791>>, <<26670, 28659>>,
       <<29839, 33518>>, <<30885, 25455>>, <<33992, 30740>>, <<36039, 520>>,
       <<37054, 65530>>, <<42064, 27883>>, <<48889, 41975>>, <<50801, 30962>>
    >>

SHA256_H0 ==
    <<
       <<27145, 58983>>, <<47975, 44677>>, <<15470, 62322>>, <<42319, 62778>>,
       <<20750, 21119>>, <<39685, 26764>>, <<8067, 55723>>, <<23520, 52505>>
    >>

SmallSigma0(x) == W32Xor(W32Xor(W32Rotr(x, 7), W32Rotr(x, 18)), W32Shr(x, 3))
SmallSigma1(x) == W32Xor(W32Xor(W32Rotr(x, 17), W32Rotr(x, 19)), W32Shr(x, 10))
BigSigma0(x) == W32Xor(W32Xor(W32Rotr(x, 2), W32Rotr(x, 13)), W32Rotr(x, 22))
BigSigma1(x) == W32Xor(W32Xor(W32Rotr(x, 6), W32Rotr(x, 11)), W32Rotr(x, 25))
Ch(x, y, z) == W32Xor(W32And(x, y), W32And(W32Not(x), z))
Maj(x, y, z) == W32Xor(W32Xor(W32And(x, y), W32And(x, z)), W32And(y, z))

\* the padded message: the data, 0x80, zero bytes to 56 mod 64, the bit length
Sha256Pad(m) ==
    LET n    == Len(m)
        k    == (119 - n) % 64
        bits == 8 * n
    IN  m \o << 128 >> \o Repeat(0, k) \o << 0, 0, 0, 0 >>
          \o << (bits \div 16777216) % 256, (bits \div 65536) % 256,
                (bits \div 256) % 256, bits % 256 >>

\* the 16 big-endian words of the block that starts after byte `off`
BlockWords(m, off) ==
    [i \in 1..16 |->
        << m[off + 4 * i - 3] * 256 + m[off + 4 * i - 2],
           m[off + 4 * i - 1] * 256 + m[off + 4 * i] >>]

RECURSIVE Schedule(_)
Schedule(w) ==
    IF Len(w) = 64 THEN w
    ELSE LET t == Len(w) + 1
         IN  Schedule(Append(w,
                 W32Add(W32Add(SmallSigma1(w[t - 2]), w[t - 7]),
                        W32Add(SmallSigma0(w[t - 15]), w[t - 16]))))

\* one round on the working variables s = << a, b, c, d, e, f, g, h >>
RoundT1(s, k, wt) ==
    W32Add(W32Add(W32Add(s[8], BigSigma1(s[5])),
                  W32Add(Ch(s[5], s[6], s[7]), k)), wt)

RoundT2(s) == W32Add(BigSigma0(s[1]), Maj(s[1], s[2], s[3]))

RoundStep(s, t1, t2) ==
    << W32Add(t1, t2), s[1], s[2], s[3], W32Add(s[4], t1), s[5], s[6], s[7] >>

RECURSIVE Rounds(_, _, _)
Rounds(s, w, t) ==
    IF t > 64 \/ ~Evaluated(s) THEN s
    ELSE Rounds(RoundStep(s, RoundT1(s, SHA256_K[t], w[t]), RoundT2(s)), w, t + 1)

AddWords(h, s) == [i \in 1..8 |-> W32Add(h[i], s[i])]

Compress(h, m, off) == AddWords(h, Rounds(h, Schedule(BlockWords(m, off)), 1))

RECURSIVE Sha256Blocks(_, _, _)
Sha256Blocks(h, m, off) ==
    IF off >= Len(m) \/ ~Evaluated(h) THEN h
    ELSE Sha256Blocks(Compress(h, m, off), m, off + 64)

\* the 32 bytes of the eight words h
DigestBytes(h) ==
    [i \in 1..32 |->
        IF (i - 1) % 4 = 0 THEN h[(i - 1) \div 4 + 1][1] \div 256
        ELSE IF (i - 1) % 4 = 1 THEN h[(i - 1) \div 4 + 1][1] % 256
        ELSE IF (i - 1) % 4 = 2 THEN h[(i - 1) \div 4 + 1][2] \div 256
        ELSE h[(i - 1) \div 4 + 1][2] % 256]

\* sha256(m).digest(): 32 bytes
sha256(m) == DigestBytes(Sha256Blocks(SHA256_H0, Sha256Pad(m), 0))

\* sha256(sha256(m).digest()).digest()[:4]
Checksum(m) == SubSeq(sha256(sha256(m)), 1, 4)

(***************************************************************************)
(* b58check_encode                                                         *)
(***************************************************************************)
HexDigits == << "0", "1", "2", "3", "4", "5", "6", "7", "8", "9",
                "a", "b", "c", "d", "e", "f" >>

RECURSIVE HexOfNat(_)
HexOfNat(n) ==
    IF n < 16 THEN << HexDigits[n + 1] >>
    ELSE HexOfNat(n \div 16) \o << HexDigits[(n % 16) + 1] >>

\* hex(n): a sequence of characters
Hex(n) ==
    IF n < 0 THEN << "-", "0", "x" >> \o HexOfNat(0 - n)
    ELSE << "0", "x" >> \o HexOfNat(n)

\* str.removeprefix
RemovePrefix(str, prefix) ==
    IF Len(str) >= Len(prefix) /\ SubSeq(str, 1, Len(prefix)) = prefix
    THEN SubSeq(str, Len(prefix) + 1, Len(str))
    ELSE str

HexValue(c) == Index(HexDigits, c)

\* bytes.fromhex: << TRUE, bytes >>, or << FALSE, _ >> when it raises ValueError
RECURSIVE FromHexLoop(_, _, _)
FromHexLoop(str, i, out) ==
    IF i > Len(str) THEN << TRUE, out >>
    ELSE IF HexValue(str[i]) < 0 THEN << FALSE, out >>
    ELSE IF i + 1 > Len(str) THEN << FALSE, out >>
    ELSE IF HexValue(str[i + 1]) < 0 THEN << FALSE, out >>
    ELSE FromHexLoop(str, i + 2,
                     Append(out, 16 * HexValue(str[i]) + HexValue(str[i + 1])))

FromHex(str) == FromHexLoop(str, 1, << >>)

\* lines 161-162: if len(v_addr) == 1: v_addr = '0' + v_addr
PadHex(v_addr) == IF Len(v_addr) = 1 THEN << "0" >> \o v_addr ELSE v_addr

\* lines 160-163: the version prefix, << TRUE, v_addr >> or << FALSE, _ >>
VersionBytes(address_version) ==
    FromHex(PadHex(RemovePrefix(Hex(address_version), << "0", "x" >>)))

\* line 164 with a single hash for the checksum
B58CheckEncodeSingleHash(val, v, charset) ==
    IF ~v[1]
    THEN Raise("ValueError", "non-hexadecimal number found in fromhex() arg")
    ELSE b58encode(v[2] \o val \o SubSeq(sha256(v[2] \o val), 1, 4), charset)

\* lines 164-166, v the outcome of bytes.fromhex
B58CheckEncodeVersioned(val, v, charset) ==
    IF ~v[1]
    THEN Raise("ValueError", "non-hexadecimal number found in fromhex() arg")
    ELSE b58encode(v[2] \o val \o Checksum(v[2] \o val), charset)

b58check_encode(val, address_version, charset) ==
    B58CheckEncodeVersioned(val, VersionBytes(address_version), charset)

(***************************************************************************)
(* b58check_address_is_valid, b58check_decode                              *)
(***************************************************************************)
\* line 188 comparing with startswith: a claimed checksum shorter than 4
\* bytes passes when the hash begins with it
ChecksumStartsWith(b58check_address_bytes) ==
    IF Slice(b58check_address_bytes, -4, Len(b58check_address_bytes))
         # SubSeq(Checksum(Slice(b58check_address_bytes, 0, -4)), 1,
                  Len(Slice(b58check_address_bytes, -4, Len(b58check_address_bytes))))
    THEN Return(FALSE)
    ELSE Return(TRUE)

\* lines 185-191 on the decoded bytes
ChecksumMatches(b58check_address_bytes) ==
    IF Slice(b58check_address_bytes, -4, Len(b58check_address_bytes))
         # Checksum(Slice(b58check_address_bytes, 0, -4))
    THEN Return(FALSE)
    ELSE Return(TRUE)

\* line 183 with the decoding error swallowed: the address is just not valid
IsValidDecodedSwallow(dec) ==
    IF dec.kind = "raise" THEN Return(FALSE) ELSE ChecksumMatches(dec.value)

\* dec the outcome of b58decode (line 183); what it raises goes to the caller
IsValidDecoded(dec) ==
    IF dec.kind = "raise" THEN dec ELSE ChecksumMatches(dec.value)

b58check_address_is_valid(val, charset) == IsValidDecoded(b58decode(val, charset))

\* line 213: b58decode(val, charset=charset)[1:-4]
StripVersionAndChecksum(dec) ==
    IF dec.kind = "raise" THEN dec ELSE Return(Slice(dec.value, 1, -4))

\* lines 210-211 left out: the content is returned whatever the checksum
B58CheckDecodeUnchecked(valid, val, charset) ==
    IF valid.kind = "raise" THEN valid
    ELSE StripVersionAndChecksum(b58decode(val, charset))

\* lines 210-213, valid the outcome of b58check_address_is_valid
B58CheckDecodeValidated(valid, val, charset) ==
    IF valid.kind = "raise" THEN valid
    ELSE IF ~valid.value THEN Raise("IncorrectAddress", "")
    ELSE StripVersionAndChecksum(b58decode(val, charset))

b58check_decode(val, charset) ==
    B58CheckDecodeValidated(b58check_address_is_valid(val, charset), val, charset)

\* the tests' corruption of an address: encoded[-k:] + encoded[:-k]
Rotate(encoded, k) ==
    Slice(encoded, 0 - k, Len(encoded)) \o Slice(encoded, 0, 0 - k)

(***************************************************************************)
(* Inputs                                                                  *)
(***************************************************************************)
MaxLen == 4
MaxContentLen == 1
MaxAddrLen == 4

CUSTOM_CHARSET ==
    << 114, 112, 115, 104, 110, 97, 102, 51, 57, 119, 66, 85, 68,
       78, 69, 71, 72, 74, 75, 76, 77, 52, 80, 81, 82, 83,
       84, 55, 86, 87, 88, 89, 90, 50, 98, 99, 100, 101, 67,
       103, 54, 53, 106, 107, 109, 56, 111, 70, 113, 105, 49, 116,
       117, 118, 65, 120, 121, 122 >>

\* alphabets whose length is not 58: empty, one symbol short, one symbol long
EmptyCharset == << >>
ShortCharset == SubSeq(DEFAULT_CHARSET, 1, 57)
LongCharset == DEFAULT_CHARSET \o << 48 >>

GoodCharsets == { DEFAULT_CHARSET, CUSTOM_CHARSET }
BadCharsets == { EmptyCharset, ShortCharset, LongCharset }
Charsets == GoodCharsets \cup BadCharsets

SeqsUpTo(S, n) == UNION { [1..k -> S] : k \in 0..n }

\* byte values: zero, small, around the base, the largest
ByteVals == { 0, 1, 57, 58, 255 }
ByteSeqs == SeqsUpTo(ByteVals, MaxLen)

\* "1" (digit 0 of the default alphabet), "r" (digit 0 of the custom one),
\* "2", "z" (in both), and "0" (in neither)
Symbols == { 49, 114, 50, 122, 48 }
SymbolSeqs == SeqsUpTo(Symbols, MaxLen)

\* the first reference vector of the tests (25 bytes)
TestRaw ==
    << 0, 118, 128, 173, 236, 142, 171, 202, 186, 198, 118, 190, 158,
       131, 133, 74, 222, 11, 210, 44, 219, 11, 185, 96, 222 >>

ContentVals == { 0, 255 }
Contents == SeqsUpTo(ContentVals, MaxContentLen) \cup { TestRaw }

\* one hex digit, two hex digits; negative, three and four hex digits
GoodVersions == { 0, 16, 255 }
BadVersions == { -1, 256, 4096 }
Versions == GoodVersions \cup BadVersions

\* addresses not made by b58check_encode: short ones over "1" and "z", runs of
\* "r" (zero bytes under the custom alphabet), and some with a foreign symbol
AddrSymbols == { 49, 122 }
Addresses == SeqsUpTo(AddrSymbols, MaxAddrLen)
               \cup { << 114 >>, << 114, 114, 114 >>, << 114, 114, 114, 114, 122 >> }
               \cup { << 48 >>, << 49, 48 >>, << 122, 48, 122 >> }

RotAmounts == { 1, 10 }

(***************************************************************************)
(* The state: the last call, and the call its argument was taken from      *)
(***************************************************************************)
VARIABLES op, val, version, charset, res, via, prev
vars == << op, val, version, charset, res, via, prev >>

NoCall == [op |-> "none", val |-> << >>, version |-> 0, charset |-> << >>,
           res |-> Return(<< >>), via |-> "none", prev |-> << >>]

Cur == [op |-> op, val |-> val, version |-> version, charset |-> charset,
        res |-> res, via |-> via, prev |-> prev]

Call(o, x, ver, cs, r, how, p) ==
    /\ op' = o
    /\ val' = x
    /\ version' = ver
    /\ charset' = cs
    /\ res' = r
    /\ via' = how
    /\ prev' = p

Init ==
    /\ op = "none"
    /\ val = << >>
    /\ version = 0
    /\ charset = << >>
    /\ res = Return(<< >>)
    /\ via = "none"
    /\ prev = << >>

\* b58encode(x, cs) on a fresh input
Encode ==
    /\ op = "none"
    /\ \E x \in ByteSeqs, cs \in Charsets :
            Call("b58encode", x, 0, cs, b58encode(x, cs), "fresh", NoCall)

\* b58decode(s, cs) on a fresh input
Decode ==
    /\ op = "none"
    /\ \E s \in SymbolSeqs, cs \in Charsets :
            Call("b58decode", s, 0, cs, b58decode(s, cs), "fresh", NoCall)

\* b58decode of what b58encode has just returned, same alphabet
DecodeEncoded ==
    /\ op = "b58encode" /\ via = "fresh" /\ res.kind = "return"
    /\ Call("b58decode", res.value, 0, charset, b58decode(res.value, charset),
            "result", Cur)

\* b58encode of what b58decode has just returned, same alphabet
EncodeDecoded ==
    /\ op = "b58decode" /\ via = "fresh" /\ res.kind = "return"
    /\ Call("b58encode", res.value, 0, charset, b58encode(res.value, charset),
            "result", Cur)

\* b58check_encode(c, v, cs) on a fresh input
CheckEncode ==
    /\ op = "none"
    /\ \E c \in Contents, v \in Versions, cs \in Charsets :
            Call("b58check_encode", c, v, cs, b58check_encode(c, v, cs), "fresh", NoCall)

\* b58check_address_is_valid(a, cs) on an address from outside
IsValid ==
    /\ op = "none"
    /\ \E a \in Addresses, cs \in Charsets :
            Call("b58check_address_is_valid", a, 0, cs,
                 b58check_address_is_valid(a, cs), "fresh", NoCall)

\* b58check_address_is_valid of the address b58check_encode has just returned
IsValidEncoded ==
    /\ op = "b58check_encode" /\ res.kind = "return"
    /\ Call("b58check_address_is_valid", res.value, 0, charset,
            b58check_address_is_valid(res.value, charset), "result", Cur)

\* ... of that address with its last k symbols moved to the front
IsValidRotated ==
    /\ op = "b58check_encode" /\ res.kind = "return"
    /\ \E k \in RotAmounts :
          Call("b58check_address_is_valid", Rotate(res.value, k), 0, charset,
               b58check_address_is_valid(Rotate(res.value, k), charset),
               "rotated", Cur)

\* b58check_decode of the address b58check_address_is_valid has just judged
CheckDecode ==
    /\ op = "b58check_address_is_valid"
    /\ Call("b58check_decode", val, 0, charset, b58check_decode(val, charset),
            "same", Cur)

\* the caller is done with the results and starts over
Finish ==
    /\ op # "none"
    /\ Call("none", << >>, 0, << >>, Return(<< >>), "none", << >>)

CodecNext == Encode \/ Decode \/ DecodeEncoded \/ EncodeDecoded \/ Finish

CheckNext ==
    \/ CheckEncode
    \/ IsValid
    \/ IsValidEncoded
    \/ IsValidRotated
    \/ CheckDecode

\* the Base58 codec alone
Next == CodecNext

Spec == Init /\ [][Next]_vars

\* all five entry points
NextCheck == CodecNext \/ CheckNext

SpecCheck == Init /\ [][NextCheck]_vars

(***************************************************************************)
(* Vocabulary of the properties                                            *)
(***************************************************************************)
Range(f) == { f[i] : i \in DOMAIN f }

RaisedValueError == res.kind = "raise" /\ res.exc = "ValueError"
RaisedIncorrectAddress == res.kind = "raise" /\ res.exc = "IncorrectAddress"

\* how many copies of c the sequence s starts with
RECURSIVE LeadingCount(_, _)
LeadingCount(s, c) ==
    IF s = << >> \/ s[1] # c THEN 0
    ELSE 1 + LeadingCount(SubSeq(s, 2, Len(s)), c)

\* the number whose big-endian digits in `base` are d (small enough for TLC)
RECURSIVE NatOf(_, _)
NatOf(d, base) ==
    IF d = << >> THEN 0
    ELSE NatOf(SubSeq(d, 1, Len(d) - 1), base) * base + d[Len(d)]

\* the digit values of a string over the alphabet cs
DigitsOf(str, cs) ==
    [i \in 1..Len(str) |-> CHOOSE k \in 0..57 : cs[k + 1] = str[i]]

\* the last call was b58decode of what b58encode(prev.val) returned
DecodedAnEncoding ==
    op = "b58decode" /\ via = "result" /\ prev.op = "b58encode"

\* the last call was b58encode of what b58decode(prev.val) returned
EncodedADecoding ==
    op = "b58encode" /\ via = "result" /\ prev.op = "b58decode"

(***************************************************************************)
(* Properties                                                              *)
(***************************************************************************)

\* C1  Base58 round trip: b58decode(b58encode(x, alphabet), alphabet) returns
\* exactly x, for every byte sequence x (empty, all zero, leading zeros) and
\* every alphabet of 58 distinct symbols.
C1_RoundTrip ==
    /\ (op = "b58encode" /\ charset \in GoodCharsets) => res.kind = "return"
    /\ DecodedAnEncoding => res = Return(prev.val)

C1_Witness ==
    /\ DecodedAnEncoding
    /\ prev.val = << 0, 0, 58, 0 >>
    /\ charset = CUSTOM_CHARSET
    /\ res = Return(<< 0, 0, 58, 0 >>)

\* C4  Leading-zero preservation: for x not starting with a zero byte (x may
\* be empty), b58encode(0x00 0x00 ++ x) starts with exactly two copies of
\* alphabet[0] (a third symbol, if any, is another one), and b58decode of that
\* output is the two zero bytes followed by x.
TwoZerosThenNonZero(x) ==
    /\ Len(x) >= 2
    /\ x[1] = 0
    /\ x[2] = 0
    /\ (Len(x) >= 3 => x[3] # 0)

C4_LeadingZeros ==
    /\ (op = "b58encode" /\ via = "fresh" /\ charset \in GoodCharsets
          /\ TwoZerosThenNonZero(val))
       => /\ res.kind = "return"
          /\ Len(res.value) >= 2
          /\ res.value[1] = charset[1]
          /\ res.value[2] = charset[1]
          /\ (Len(res.value) >= 3 => res.value[3] # charset[1])
          /\ (Len(val) >= 3 => Len(res.value) >= 3)
    /\ (DecodedAnEncoding /\ TwoZerosThenNonZero(prev.val))
       => /\ res.kind = "return"
          /\ TwoZerosThenNonZero(res.value)
          /\ SubSeq(res.value, 3, Len(res.value)) = SubSeq(prev.val, 3, Len(prev.val))

C4_Witness ==
    /\ DecodedAnEncoding
    /\ prev.val = << 0, 0, 255, 0 >>
    /\ charset = CUSTOM_CHARSET
    /\ val[1] = 114 /\ val[2] = 114 /\ val[3] # 114
    /\ res = Return(<< 0, 0, 255, 0 >>)

\* C7 as claimed: b58encode of the empty byte sequence returns exactly one
\* alphabet[0] symbol, and b58decode of the empty string returns the single
\* byte 0x00.
C7_EmptyIsOneZeroSymbol ==
    /\ (op = "b58encode" /\ val = << >> /\ charset \in GoodCharsets)
       => res = Return(<< charset[1] >>)
    /\ (op = "b58decode" /\ val = << >> /\ charset \in GoodCharsets)
       => res = Return(<< 0 >>)

\* C7 as amended: b58encode of the empty byte sequence returns the empty
\* string and b58decode of the empty string returns the empty byte sequence;
\* one alphabet[0] symbol is the encoding of the single byte 0x00, and decodes
\* to it.
C7_EmptyIsEmpty ==
    /\ (op = "b58encode" /\ val = << >> /\ charset \in GoodCharsets)
       => res = Return(<< >>)
    /\ (op = "b58decode" /\ val = << >> /\ charset \in GoodCharsets)
       => res = Return(<< >>)
    /\ (op = "b58encode" /\ val = << 0 >> /\ charset \in GoodCharsets)
       => res = Return(<< charset[1] >>)
    /\ (op = "b58decode" /\ charset \in GoodCharsets /\ val = << charset[1] >>)
       => res = Return(<< 0 >>)

C7_Witness ==
    /\ DecodedAnEncoding
    /\ prev.val = << >>
    /\ prev.res = Return(<< >>)
    /\ val = << >>
    /\ res = Return(<< >>)
    /\ charset = DEFAULT_CHARSET

\* C10  Canonical encoding: for a string s made only of alphabet symbols
\* (empty and all-alphabet[0] strings included), b58decode(s) is z zero bytes,
\* z the number of leading alphabet[0] symbols of s, followed by the minimal
\* big-endian bytes of the integer folded from the remaining symbols, and
\* b58encode(b58decode(s)) returns exactly s.
C10_Canonical ==
    /\ (op = "b58decode" /\ via = "fresh" /\ charset \in GoodCharsets
          /\ Range(val) \subseteq Range(charset))
       => /\ res.kind = "return"
          /\ LeadingCount(res.value, 0) = LeadingCount(val, charset[1])
          /\ NatOf(res.value, 256) = NatOf(DigitsOf(val, charset), 58)
    /\ EncodedADecoding => res = Return(prev.val)

C10_Witness ==
    /\ EncodedADecoding
    /\ charset = DEFAULT_CHARSET
    /\ prev.val = << 49, 49, 122, 50 >>
    /\ val = << 0, 0, 12, 235 >>
    /\ res = Return(<< 49, 49, 122, 50 >>)

\* C2  Base58Check round trip: for every content c and version v in 0..255,
\* a = b58check_encode(c, v, alphabet) is accepted by
\* b58check_address_is_valid(a, alphabet), and b58check_decode(a, alphabet)
\* returns exactly c.
C2_CheckRoundTrip ==
    /\ (op = "b58check_encode" /\ version \in 0..255 /\ charset \in GoodCharsets)
       => res.kind = "return"
    /\ (op = "b58check_address_is_valid" /\ via = "result"
          /\ prev.version \in 0..255)
       => (res.kind = "return" /\ res.value = TRUE)
    /\ (op = "b58check_decode" /\ prev.via = "result"
          /\ prev.prev.version \in 0..255)
       => res = Return(prev.prev.val)

C2_Witness ==
    /\ op = "b58check_decode"
    /\ prev.via = "result"
    /\ prev.prev.val = TestRaw
    /\ prev.prev.version = 0
    /\ prev.prev.charset = DEFAULT_CHARSET
    /\ Len(val) = 41
    /\ res = Return(TestRaw)

\* C3  Checksum gate: for an address whose symbols are all in the alphabet,
\* b58check_address_is_valid returns True exactly when the last 4 decoded
\* bytes are the first 4 bytes of SHA256(SHA256(the bytes before them));
\* b58check_decode raises IncorrectAddress exactly when
\* b58check_address_is_valid returns False, and then returns no content (an
\* address corrupted by moving its last symbols to the front included).
ChecksumGate(raw) ==
    /\ Len(raw) >= 4
    /\ SubSeq(raw, Len(raw) - 3, Len(raw))
         = SubSeq(sha256(sha256(SubSeq(raw, 1, Len(raw) - 4))), 1, 4)

C3_ChecksumGate ==
    /\ (op = "b58check_address_is_valid" /\ charset \in GoodCharsets
          /\ Range(val) \subseteq Range(charset))
       => /\ res.kind = "return"
          /\ res.value = ChecksumGate(b58decode(val, charset).value)
    /\ op = "b58check_decode"
       => (RaisedIncorrectAddress
             <=> (prev.res.kind = "return" /\ prev.res.value = FALSE))

C3_Witness ==
    /\ op = "b58check_decode"
    /\ prev.via = "rotated"
    /\ prev.prev.val = TestRaw
    /\ val = Rotate(prev.prev.res.value, 10)
    /\ val # prev.prev.res.value
    /\ prev.res = Return(FALSE)
    /\ RaisedIncorrectAddress

\* C8  Short-address guard: an address over the alphabet whose Base58
\* decoding has fewer than 4 bytes (the empty address included) makes
\* b58check_address_is_valid return False and b58check_decode raise
\* IncorrectAddress.
ShortAddress ==
    /\ charset \in GoodCharsets
    /\ Range(val) \subseteq Range(charset)
    /\ Len(b58decode(val, charset).value) < 4

C8_ShortAddress ==
    /\ (op = "b58check_address_is_valid" /\ ShortAddress)
       => (res.kind = "return" /\ res.value = FALSE)
    /\ (op = "b58check_decode" /\ ShortAddress) => RaisedIncorrectAddress

C8_Witness ==
    /\ op = "b58check_decode"
    /\ val = << 122, 122, 122, 122 >>
    /\ charset = DEFAULT_CHARSET
    /\ prev.res = Return(FALSE)
    /\ RaisedIncorrectAddress

\* C9  Invalid-symbol propagation: when the input, after its leading
\* alphabet[0] symbols, holds a symbol that is not in the alphabet, b58decode
\* raises ValueError, and b58check_address_is_valid and b58check_decode raise
\* that same error (neither False nor IncorrectAddress).
ForeignSymbol ==
    /\ charset \in GoodCharsets
    /\ \E i \in LeadingCount(val, charset[1]) + 1 .. Len(val) :
          val[i] \notin Range(charset)

C9_InvalidSymbol ==
    (op \in { "b58decode", "b58check_address_is_valid", "b58check_decode" }
       /\ ForeignSymbol)
    => res = Raise("ValueError", "subsection not found")

C9_Witness ==
    /\ op = "b58check_decode"
    /\ val = << 49, 48 >>
    /\ charset = DEFAULT_CHARSET
    /\ prev.res = Raise("ValueError", "subsection not found")
    /\ res = Raise("ValueError", "subsection not found")

\* C5  Alphabet rejection: for every alphabet whose length is not 58
\* (shorter, longer or empty), each of the five entry points fails with
\* ValueError and returns nothing.
C5_AlphabetRejection ==
    (op # "none" /\ Len(charset) # 58 /\ version \in 0..255)
    => RaisedValueError

\* C6  Version handling: for a version in 0..255 the prefix before the
\* content is the one byte of that value; for any other version
\* b58check_encode fails with ValueError, so that no address with a
\* multi-byte version prefix is produced.
C6_VersionPrefix ==
    (op = "b58check_encode" /\ charset \in GoodCharsets)
    => IF version \in 0..255
       THEN /\ res.kind = "return"
            /\ SubSeq(b58decode(res.value, charset).value, 1, Len(val) + 1)
                 = << version >> \o val
            /\ Len(b58decode(res.value, charset).value) = Len(val) + 5
       ELSE RaisedValueError
====
